---- MODULE Spec2Model ----
(***************************************************************************)
(* The crypto screener's App component as a state machine.                 *)
(*                                                                         *)
(* The repository holds two variants of the component: src/src/App.js      *)
(* (one market page, one category lookup per coin, a category column) and  *)
(* src/unnamed/part_000 (two market pages, majors / altcoins tables).      *)
(* The variable `variant` says which one runs; it never changes.           *)
(*                                                                         *)
(* A value that JavaScript may leave null or undefined is modelled as a    *)
(* set of at most one element: Null is the absent value, Some(v) is v.     *)
(* A string is the sequence of its UTF-16 code units.                      *)
(***************************************************************************)
EXTENDS Integers, Sequences, FiniteSets, TLC

VARIABLES variant, mounted, cryptos, loading, error, currency, lastUpdated,
          sortColumn, sortOrder, sortedCryptos, fetches, started, lastAction,
          shownFetch, exported

vars == <<variant, mounted, cryptos, loading, error, currency, lastUpdated,
          sortColumn, sortOrder, sortedCryptos, fetches, started, lastAction,
          shownFetch, exported>>

----------------------------------------------------------------------------
(* Bounds of the model *)

\* longest batch the sorter is applied to in SortSpec
MaxLen == 3
\* most records in one market page (Spec)
MaxPage == 1
\* most records in the market page of the App variant (Spec)
MaxMarket == 2
\* most fetches started in one behaviour (Spec)
MaxFetches == 2
\* latest wall-clock reading (Spec)
MaxTime == 2

\* the longest batch handed to the exporter on its own
MaxRows == 2

----------------------------------------------------------------------------
(* Optional values and strings *)

Null == {}
Some(v) == {v}
Val(o) == CHOOSE v \in o : TRUE

\* code units of the characters the model's strings are made of
CharSlash == 47
CharUpperA == 65
CharUpperB == 66
CharUpperN == 78
CharLowerA == 97

EmptyString == << >>
StrNA == <<CharUpperN, CharSlash, CharUpperA>>
StrLowerA == <<CharLowerA>>
StrUpperB == <<CharUpperB>>

\* the code units of the characters the component writes
CharQuote == 34
CharComma == 44
CharNewline == 10
CharMinus == 45
CharPercent == 37
CharDot == 46
CharDollar == 36
CharEuro == 8364
CharDigit0 == 48
CharDigit1 == 49
CharDigit2 == 50
CharDigit3 == 51
CharDigit4 == 52
CharDigit5 == 53
CharDigit6 == 54
CharDigit7 == 55
CharDigit8 == 56
CharDigit9 == 57
CharUpperR == 82
CharLowerN == 110
CharLowerK == 107
CharUpperC == 67
CharLowerO == 111
CharLowerI == 105
CharSpace == 32
CharLowerM == 109
CharLowerE == 101
CharUpperS == 83
CharLowerY == 121
CharLowerB == 98
CharLowerL == 108
CharLowerT == 116
CharLowerG == 103
CharLowerR == 114
CharUpperP == 80
CharLowerC == 99
CharUpperM == 77
CharLowerP == 112
CharUpperV == 86
CharLowerU == 117
CharLParen == 40
CharLowerH == 104
CharRParen == 41
CharLowerD == 100
CharLowerF == 102
CharLowerJ == 106
CharGreater == 62
CharLowerX == 120
CharUpperL == 76

\* the string literals of exportToCSV and of the table
HeaderRank == <<CharUpperR, CharLowerA, CharLowerN, CharLowerK>>
HeaderCoinName ==
  <<CharUpperC, CharLowerO, CharLowerI, CharLowerN, CharSpace, CharUpperN,
    CharLowerA, CharLowerM, CharLowerE>>
HeaderSymbol == <<CharUpperS, CharLowerY, CharLowerM, CharLowerB, CharLowerO, CharLowerL>>
HeaderCategory ==
  <<CharUpperC, CharLowerA, CharLowerT, CharLowerE, CharLowerG, CharLowerO,
    CharLowerR, CharLowerY>>
HeaderPrice == <<CharUpperP, CharLowerR, CharLowerI, CharLowerC, CharLowerE>>
HeaderMarketCap ==
  <<CharUpperM, CharLowerA, CharLowerR, CharLowerK, CharLowerE, CharLowerT,
    CharSpace, CharUpperC, CharLowerA, CharLowerP>>
HeaderVolume ==
  <<CharUpperV, CharLowerO, CharLowerL, CharLowerU, CharLowerM, CharLowerE,
    CharSpace, CharLParen, CharDigit2, CharDigit4, CharLowerH, CharRParen>>
Header24h ==
  <<CharDigit2, CharDigit4, CharLowerH, CharSpace, CharPercent, CharSpace,
    CharUpperC, CharLowerH, CharLowerA, CharLowerN, CharLowerG, CharLowerE>>
Header7d ==
  <<CharDigit7, CharLowerD, CharSpace, CharPercent, CharSpace, CharUpperC,
    CharLowerH, CharLowerA, CharLowerN, CharLowerG, CharLowerE>>
Header30d ==
  <<CharDigit3, CharDigit0, CharLowerD, CharSpace, CharPercent, CharSpace,
    CharUpperC, CharLowerH, CharLowerA, CharLowerN, CharLowerG, CharLowerE>>
Header1y ==
  <<CharDigit1, CharLowerY, CharSpace, CharPercent, CharSpace, CharUpperC,
    CharLowerH, CharLowerA, CharLowerN, CharLowerG, CharLowerE>>
StrSmartContractPlatform ==
  <<CharUpperS, CharLowerM, CharLowerA, CharLowerR, CharLowerT, CharSpace,
    CharUpperC, CharLowerO, CharLowerN, CharLowerT, CharLowerR, CharLowerA,
    CharLowerC, CharLowerT, CharSpace, CharUpperP, CharLowerL, CharLowerA,
    CharLowerT, CharLowerF, CharLowerO, CharLowerR, CharLowerM>>
StrMajorLabel ==
  <<CharUpperM, CharLowerA, CharLowerJ, CharLowerO, CharLowerR, CharSpace,
    CharGreater, CharSpace, CharDigit8, CharDigit0, CharPercent, CharSpace,
    CharLowerA, CharLowerL, CharLowerL, CharLowerO, CharLowerC, CharLowerA,
    CharLowerT, CharLowerI, CharLowerO, CharLowerN, CharSpace, CharLowerP,
    CharLowerE, CharLowerR, CharLowerM, CharLowerI, CharLowerT, CharLowerT,
    CharLowerE, CharLowerD>>
StrNoDataToExport ==
  <<CharUpperN, CharLowerO, CharSpace, CharLowerD, CharLowerA, CharLowerT,
    CharLowerA, CharSpace, CharLowerT, CharLowerO, CharSpace, CharLowerE, CharLowerX,
    CharLowerP, CharLowerO, CharLowerR, CharLowerT, CharDot>>
HeaderShort == <<CharUpperS, CharLowerH, CharLowerO, CharLowerR, CharLowerT>>
HeaderMedium == <<CharUpperM, CharLowerE, CharLowerD, CharLowerI, CharLowerU, CharLowerM>>
HeaderLong == <<CharUpperL, CharLowerO, CharLowerN, CharLowerG>>

Variants == {"App", "part_000"}

ColCategory == "category"
Col24h == "price_change_percentage_24h_in_currency"
Col7d == "price_change_percentage_7d_in_currency"

\* the column headers that carry an onClick handler
Columns(v) == IF v = "App" THEN {ColCategory, Col24h} ELSE {Col24h, Col7d}

Currencies == {"usd", "eur"}

ErrorMessage(v) ==
  IF v = "App"
  THEN "Failed to load data. Please try again later. (API rate limit might be hit)"
  ELSE "Failed to load data. Please try again later."

----------------------------------------------------------------------------
(* String.prototype.localeCompare on the model's alphabet: the strings are *)
(* compared by their letters first (case ignored, punctuation before       *)
(* letters), and only when those agree by case, lower case first.          *)

PrimaryWeight(ch) ==
  IF ch = CharSlash THEN 1
  ELSE IF ch \in {CharLowerA, CharUpperA} THEN 2
  ELSE IF ch = CharUpperB THEN 3
  ELSE 4

TertiaryWeight(ch) == IF ch \in {CharUpperA, CharUpperB, CharUpperN} THEN 1 ELSE 0

RECURSIVE LexCompare(_, _)
LexCompare(s, t) ==
  IF s = << >> /\ t = << >> THEN 0
  ELSE IF s = << >> THEN -1
  ELSE IF t = << >> THEN 1
  ELSE IF Head(s) < Head(t) THEN -1
  ELSE IF Head(s) > Head(t) THEN 1
  ELSE LexCompare(Tail(s), Tail(t))

localeCompare(s, t) ==
  LET p == LexCompare([i \in 1..Len(s) |-> PrimaryWeight(s[i])],
                      [i \in 1..Len(t) |-> PrimaryWeight(t[i])])
  IN IF p # 0 THEN p
     ELSE LexCompare([i \in 1..Len(s) |-> TertiaryWeight(s[i])],
                     [i \in 1..Len(t) |-> TertiaryWeight(t[i])])

----------------------------------------------------------------------------
(* The sorter *)

\* an absent value taken for less than every value
OrLowest(o) == IF o = Null THEN 0 - 2 ELSE Val(o)

\* value || 0 : null, undefined and 0 are falsy
OrZero(o) == IF o = Null \/ o = Some(0) THEN 0 ELSE Val(o)

\* value || '' : null, undefined and '' are falsy
OrEmpty(o) == IF o = Null THEN EmptyString ELSE Val(o)

\* a comparator that orders the categories without regard to the direction
CompareCategoryAscending(a, b, col, ord) ==
  IF col = Null THEN 0
  ELSE IF col = Some(ColCategory)
  THEN localeCompare(OrEmpty(a.category), OrEmpty(b.category))
  ELSE IF ord = "asc" THEN OrZero(a[Val(col)]) - OrZero(b[Val(col)])
       ELSE OrZero(b[Val(col)]) - OrZero(a[Val(col)])

\* a comparator that answers 1 or -1 only, 1 for equal values
CompareTiesGreater(a, b, col, ord) ==
  IF col = Null THEN 0
  ELSE IF col = Some(ColCategory)
  THEN IF ord = "asc"
       THEN (IF localeCompare(OrEmpty(a.category), OrEmpty(b.category)) >= 0 THEN 1 ELSE 0 - 1)
       ELSE (IF localeCompare(OrEmpty(b.category), OrEmpty(a.category)) >= 0 THEN 1 ELSE 0 - 1)
  ELSE IF ord = "asc"
       THEN (IF OrZero(a[Val(col)]) >= OrZero(b[Val(col)]) THEN 1 ELSE 0 - 1)
       ELSE (IF OrZero(b[Val(col)]) >= OrZero(a[Val(col)]) THEN 1 ELSE 0 - 1)

\* the comparator handed to Array.prototype.sort

Compare(a, b, col, ord) ==
  IF col = Null THEN 0
  ELSE IF col = Some(ColCategory)
  THEN IF ord = "asc"
       THEN localeCompare(OrEmpty(a.category), OrEmpty(b.category))
       ELSE localeCompare(OrEmpty(b.category), OrEmpty(a.category))
  ELSE IF ord = "asc" THEN OrZero(a[Val(col)]) - OrZero(b[Val(col)])
       ELSE OrZero(b[Val(col)]) - OrZero(a[Val(col)])

\* an insertion that puts x in front of the elements it compares equal to
RECURSIVE InsertUnstable(_, _, _, _)
InsertUnstable(sorted, x, col, ord) ==
  IF sorted = << >> THEN <<x>>
  ELSE IF Compare(sorted[Len(sorted)], x, col, ord) >= 0
       THEN Append(InsertUnstable(SubSeq(sorted, 1, Len(sorted) - 1), x, col, ord),
                   sorted[Len(sorted)])
       ELSE Append(sorted, x)

\* x put into the sorted prefix, behind every element that does not compare
\* greater than it
RECURSIVE Insert(_, _, _, _)
Insert(sorted, x, col, ord) ==
  IF sorted = << >> THEN <<x>>
  ELSE IF Compare(sorted[Len(sorted)], x, col, ord) > 0
       THEN Append(Insert(SubSeq(sorted, 1, Len(sorted) - 1), x, col, ord),
                   sorted[Len(sorted)])
       ELSE Append(sorted, x)

\* Array.prototype.sort with the comparator: a stable sort (ECMAScript 2019)
RECURSIVE ArraySort(_, _, _)
ArraySort(xs, col, ord) ==
  IF xs = << >> THEN << >>
  ELSE Insert(ArraySort(SubSeq(xs, 1, Len(xs) - 1), col, ord), xs[Len(xs)], col, ord)

\* a render that sorts the state array itself: cryptos.sort(comparator)
RenderInPlace(cs, col, ord) ==
  [cryptos |-> ArraySort(cs, col, ord), sortedCryptos |-> ArraySort(cs, col, ord)]

\* one render: sortedCryptos = [...cryptos].sort(comparator); the spread
\* copies the array, so the state array is the one it was
Render(cs, col, ord) ==
  [cryptos |-> cs, sortedCryptos |-> ArraySort(cs, col, ord)]

\* the state update is committed and the component renders again
Commit(cs, col, ord) ==
  /\ cryptos' = Render(cs, col, ord).cryptos
  /\ sortedCryptos' = Render(cs, col, ord).sortedCryptos

\* what a step that is not an export hands to the download link: nothing
NoExport == [csvContent |-> Null, log |-> Null]

----------------------------------------------------------------------------
(* handleSort *)

\* a handler that keeps the direction when the column changes
handleSortResultKeep(col, ord, column) ==
  IF col = Some(column)
  THEN [sortColumn |-> col, sortOrder |-> IF ord = "asc" THEN "desc" ELSE "asc"]
  ELSE [sortColumn |-> Some(column), sortOrder |-> ord]

\* a handler whose third click on a column takes the sort off again
handleSortResultCycle(col, ord, column) ==
  IF col = Some(column)
  THEN IF ord = "asc" THEN [sortColumn |-> Null, sortOrder |-> "desc"]
       ELSE [sortColumn |-> col, sortOrder |-> "asc"]
  ELSE [sortColumn |-> Some(column), sortOrder |-> "desc"]

\* the sort column and direction handleSort sets
handleSortResult(col, ord, column) ==
  IF col = Some(column)
  THEN [sortColumn |-> col, sortOrder |-> IF ord = "asc" THEN "desc" ELSE "asc"]
  ELSE [sortColumn |-> Some(column), sortOrder |-> "desc"]

handleSort(column) ==
  /\ mounted
  /\ column \in Columns(variant)
  \* the headers are rendered only with the table
  /\ ~loading /\ error = Null
  /\ sortColumn' = handleSortResult(sortColumn, sortOrder, column).sortColumn
  /\ sortOrder' = handleSortResult(sortColumn, sortOrder, column).sortOrder
  /\ Commit(cryptos, sortColumn', sortOrder')
  /\ lastAction' = [op |-> "handleSort", column |-> Some(column),
                    prevColumn |-> sortColumn, prevOrder |-> sortOrder, failed |-> 0]
  /\ exported' = NoExport
  /\ UNCHANGED <<variant, mounted, loading, error, currency, lastUpdated, fetches, started,
                 shownFetch>>

----------------------------------------------------------------------------
(* What the API may answer *)

\* a record of the markets endpoint: the fields the component reads. The
\* percentage changes of a record hang on one value v, the amounts on price.
Crypto(id, rank, name, symbol, category, price, v) ==
  [id |-> id, market_cap_rank |-> rank, name |-> name, symbol |-> symbol,
   category |-> category,
   current_price |-> price, market_cap |-> price, total_volume |-> price,
   price_change_percentage_24h_in_currency |-> v,
   price_change_percentage_7d_in_currency |-> IF v = Null THEN Null ELSE Some(0 - Val(v)),
   price_change_percentage_30d_in_currency |-> v,
   price_change_percentage_1y_in_currency |-> v]

RawRecord(id, v) == Crypto(id, id, StrLowerA, StrLowerA, Null, v, v)

\* the records of a market page; a record may come without its id
RawRecords == {RawRecord(Null, Null), RawRecord(Some(1), Some(1)), RawRecord(Some(2), Null)}

RECURSIVE SeqsUpTo(_, _)
SeqsUpTo(S, n) ==
  IF n = 0 THEN {<< >>}
  ELSE LET shorter == SeqsUpTo(S, n - 1)
       IN shorter \cup {Append(q, x) : q \in {r \in shorter : Len(r) = n - 1}, x \in S}

Pages == SeqsUpTo(RawRecords, MaxPage)

\* the one page of the App variant
MarketPages == SeqsUpTo(RawRecords, MaxMarket)

\* detailData.categories of a coin's detail document
CategoryLists == {Null, Some(<< >>), Some(<<StrLowerA>>)}

Times == 1..MaxTime

----------------------------------------------------------------------------
(* fetchCryptoData *)

\* the last step taken; failed counts the lookups that failed in a fetch that
\* has just stored its batch
Act(op, failed) ==
  [op |-> op, column |-> Null, prevColumn |-> Null, prevOrder |-> "desc",
   failed |-> failed]

NewFetch(n, cur) ==
  [n |-> n, currency |-> cur,
   stage |-> IF variant = "App" THEN "marketResponse" ELSE "response1",
   ok1 |-> FALSE, data1 |-> << >>, data2 |-> << >>,
   marketData |-> << >>, details |-> << >>]

\* the synchronous head of fetchCryptoData: setLoading(true); setError(null);
\* and the first request is issued
StartFetch(cur) ==
  /\ started < MaxFetches
  /\ started' = started + 1
  /\ fetches' = fetches \cup {NewFetch(started + 1, cur)}
  /\ loading' = TRUE
  /\ error' = Null

\* useEffect(() => fetchCryptoData(), [fetchCryptoData]) on mount
Mount ==
  /\ ~mounted
  /\ mounted' = TRUE
  /\ StartFetch(currency)
  /\ Commit(cryptos, sortColumn, sortOrder)
  /\ lastAction' = Act("mount", 0)
  /\ exported' = NoExport
  /\ UNCHANGED <<variant, currency, lastUpdated, sortColumn, sortOrder, shownFetch>>

\* the currency select's onChange, and the effect of the new fetchCryptoData
setCurrency(c) ==
  /\ mounted
  /\ c \in Currencies /\ c # currency
  /\ currency' = c
  /\ StartFetch(c)
  /\ Commit(cryptos, sortColumn, sortOrder)
  /\ lastAction' = Act("setCurrency", 0)
  /\ exported' = NoExport
  /\ UNCHANGED <<variant, mounted, lastUpdated, sortColumn, sortOrder, shownFetch>>

\* the Refresh Data button, disabled while loading
Refresh ==
  /\ mounted
  /\ ~loading
  /\ StartFetch(currency)
  /\ Commit(cryptos, sortColumn, sortOrder)
  /\ lastAction' = Act("refresh", 0)
  /\ exported' = NoExport
  /\ UNCHANGED <<variant, mounted, currency, lastUpdated, sortColumn, sortOrder, shownFetch>>

\* a catch block that also drops the batch on display
FailureResultClearing(cs, lu) ==
  [cryptos |-> << >>, lastUpdated |-> Null,
   error |-> Some(ErrorMessage(variant)), loading |-> FALSE]

\* catch (err) { setError(...) } finally { setLoading(false) }
FailureResult(cs, lu) ==
  [cryptos |-> cs, lastUpdated |-> lu,
   error |-> Some(ErrorMessage(variant)), loading |-> FALSE]

\* setCryptos(batch); setLastUpdated(now); finally { setLoading(false) }
SuccessResult(batch, now, err) ==
  [cryptos |-> batch, lastUpdated |-> Some(now), error |-> err, loading |-> FALSE]

\* the fetch f ends, and the state updates of its last step are committed
Settle(f, r, op, failed) ==
  /\ fetches' = fetches \ {f}
  /\ loading' = r.loading
  /\ error' = r.error
  /\ lastUpdated' = r.lastUpdated
  /\ Commit(r.cryptos, sortColumn, sortOrder)
  /\ lastAction' = Act(op, failed)
  /\ shownFetch' = IF op = "fetchSucceeded"
                   THEN Some([n |-> f.n, currency |-> f.currency])
                   ELSE shownFetch
  /\ exported' = NoExport
  /\ UNCHANGED <<variant, mounted, currency, sortColumn, sortOrder, started>>

Fail(f) == Settle(f, FailureResult(cryptos, lastUpdated), "fetchFailed", 0)

Succeed(f, batch, failed) ==
  \E now \in Times :
    /\ lastUpdated # Null => now >= Val(lastUpdated)
    /\ Settle(f, SuccessResult(batch, now, error), "fetchSucceeded", failed)

\* the fetch f moves on to its next await
Advance(f, g) ==
  /\ fetches' = (fetches \ {f}) \cup {g}
  /\ lastAction' = Act("await", 0)
  /\ exported' = NoExport
  /\ UNCHANGED <<variant, mounted, cryptos, loading, error, currency, lastUpdated,
                 sortColumn, sortOrder, sortedCryptos, started, shownFetch>>

ResponseOutcomes == {"ok", "notOk", "throw"}

----------------------------------------------------------------------------
(* part_000: two market pages *)

\* const combinedData = [...data1, ...data2]
combinedData(data1, data2) == data1 \o data2

\* await fetch(page 1) settles
Response1(f, outcome) ==
  /\ variant = "part_000" /\ f.stage = "response1"
  /\ IF outcome = "throw" THEN Fail(f)
     ELSE Advance(f, [f EXCEPT !.stage = "response2", !.ok1 = (outcome = "ok")])

\* await fetch(page 2) settles, and the two responses' ok flags are tested
Response2(f, outcome) ==
  /\ variant = "part_000" /\ f.stage = "response2"
  /\ IF outcome = "throw" \/ ~f.ok1 \/ outcome = "notOk" THEN Fail(f)
     ELSE Advance(f, [f EXCEPT !.stage = "json1"])

\* await response1.json() settles
Json1(f, thrown, data) ==
  /\ variant = "part_000" /\ f.stage = "json1"
  /\ IF thrown THEN Fail(f)
     ELSE Advance(f, [f EXCEPT !.stage = "json2", !.data1 = data])

\* await response2.json() settles; the batch is stored
Json2(f, thrown, data) ==
  /\ variant = "part_000" /\ f.stage = "json2"
  /\ IF thrown THEN Fail(f)
     ELSE Succeed(f, combinedData(f.data1, data), 0)

----------------------------------------------------------------------------
(* App.js: one market page and one detail lookup per coin *)

\* detailData.categories && detailData.categories.length > 0
\*   ? detailData.categories[0] : 'N/A'
firstCategory(categories) ==
  IF categories # Null /\ Len(Val(categories)) > 0 THEN Val(categories)[1] ELSE StrNA

\* return { ...crypto, category }
withCategory(crypto, category) == [crypto EXCEPT !.category = Some(category)]

\* a failed lookup that ends with the empty category
failedLookupCategoryEmpty == EmptyString

\* the category a lookup ends with when its response is not OK or it throws
failedLookupCategory == StrNA

Lookup(stage, category) == [stage |-> stage, category |-> category]

\* await fetch(markets) settles
MarketResponse(f, outcome) ==
  /\ variant = "App" /\ f.stage = "marketResponse"
  /\ IF outcome # "ok" THEN Fail(f)
     ELSE Advance(f, [f EXCEPT !.stage = "marketJson"])

\* await marketResponse.json() settles; marketData.map issues one lookup per coin
MarketJson(f, thrown, data) ==
  /\ variant = "App" /\ f.stage = "marketJson"
  /\ IF thrown THEN Fail(f)
     ELSE Advance(f, [f EXCEPT !.stage = "details", !.marketData = data,
                               !.details = [i \in 1..Len(data) |->
                                              Lookup("detailResponse", Null)]])

\* await fetch(coins/id) of the i-th coin settles
DetailResponse(f, i, outcome) ==
  /\ variant = "App" /\ f.stage = "details"
  /\ i \in 1..Len(f.details) /\ f.details[i].stage = "detailResponse"
  /\ IF outcome = "ok"
     THEN Advance(f, [f EXCEPT !.details[i] = Lookup("detailJson", Null)])
     ELSE Advance(f, [f EXCEPT !.details[i] =
                                 Lookup("failed", Some(failedLookupCategory))])

\* await detailResponse.json() of the i-th coin settles
DetailJson(f, i, thrown, categories) ==
  /\ variant = "App" /\ f.stage = "details"
  /\ i \in 1..Len(f.details) /\ f.details[i].stage = "detailJson"
  /\ IF thrown
     THEN Advance(f, [f EXCEPT !.details[i] =
                                 Lookup("failed", Some(failedLookupCategory))])
     ELSE Advance(f, [f EXCEPT !.details[i] =
                                 Lookup("settled", Some(firstCategory(categories)))])

\* the records whose lookup succeeded, the others left out
RECURSIVE SettledUpTo(_, _)
SettledUpTo(f, n) ==
  IF n = 0 THEN << >>
  ELSE IF f.details[n].stage = "settled"
       THEN Append(SettledUpTo(f, n - 1),
                   [f.marketData[n] EXCEPT !.category = f.details[n].category])
       ELSE SettledUpTo(f, n - 1)

cryptosWithCategoriesSettled(f) == SettledUpTo(f, Len(f.marketData))

\* the array Promise.all resolves with
cryptosWithCategories(f) ==
  [i \in 1..Len(f.marketData) |-> withCategory(f.marketData[i], Val(f.details[i].category))]

\* every lookup has settled: await Promise.all(...) resumes; the batch is stored
PromiseAll(f) ==
  /\ variant = "App" /\ f.stage = "details"
  /\ \A i \in 1..Len(f.details) : f.details[i].stage \in {"failed", "settled"}
  /\ Succeed(f, cryptosWithCategories(f),
             Cardinality({i \in 1..Len(f.details) : f.details[i].stage = "failed"}))

----------------------------------------------------------------------------
(* part_000: the majors and altcoins tables *)

\* rank >= n as JavaScript compares: null counts as 0 (an undefined rank is
\* NaN, which fails every comparison; the lower bounds used here reject both)
GreaterEq(rank, n) == IF rank = Null THEN 0 >= n ELSE Val(rank) >= n

\* rank <= n, null counting as 0
LessEq(rank, n) == IF rank = Null THEN 0 <= n ELSE Val(rank) <= n

isMajorExclusive(crypto) ==
  GreaterEq(crypto.market_cap_rank, 1) /\ ~GreaterEq(crypto.market_cap_rank, 8)

\* the filter of the majors table
isMajor(crypto) == GreaterEq(crypto.market_cap_rank, 1) /\ LessEq(crypto.market_cap_rank, 8)

\* the filter of the altcoins table
isAltcoin(crypto) == GreaterEq(crypto.market_cap_rank, 9) /\ LessEq(crypto.market_cap_rank, 200)

majors == SelectSeq(sortedCryptos, isMajor)

altcoins == SelectSeq(sortedCryptos, isAltcoin)

----------------------------------------------------------------------------
(* exportToCSV *)

\* String.prototype.toUpperCase on the letters a..z
toUpperCase(s) ==
  [i \in 1..Len(s) |->
     IF s[i] \in CharLowerA..(CharLowerA + 25) THEN s[i] - (CharLowerA - CharUpperA) ELSE s[i]]

\* the decimal digits of a natural number
RECURSIVE Digits(_)
Digits(n) ==
  IF n < 10 THEN <<CharDigit0 + n>> ELSE Digits(n \div 10) \o <<CharDigit0 + (n % 10)>>

\* Number.prototype.toString of an integer
NumberToString(n) == IF n < 0 THEN <<CharMinus>> \o Digits(0 - n) ELSE Digits(n)

\* the elements of the array a row is joined from: null / undefined, a
\* number, a string
JSNull == [kind |-> "null", num |-> 0, str |-> EmptyString]

JSNumber(n) == [kind |-> "number", num |-> n, str |-> EmptyString]

JSString(str) == [kind |-> "string", num |-> 0, str |-> str]

\* a field of a record as an array element
Element(field) == IF field = Null THEN JSNull ELSE JSNumber(Val(field))

\* Array.prototype.join turns null and undefined into the empty string and
\* every other element into its string
ElementText(e) ==
  IF e.kind = "null" THEN EmptyString
  ELSE IF e.kind = "number" THEN NumberToString(e.num)
  ELSE e.str

RECURSIVE join(_, _)
join(array, separator) ==
  IF array = << >> THEN EmptyString
  ELSE IF Len(array) = 1 THEN ElementText(array[1])
  ELSE ElementText(Head(array)) \o separator \o join(Tail(array), separator)

\* value || '' : zero is falsy too
getNumericValueOrEmpty(value) ==
  IF value = Null \/ Val(value) = 0 THEN JSString(EmptyString) ELSE JSNumber(Val(value))

\* value === null || value === undefined ? '' : value
getNumericValue(value) ==
  IF value = Null THEN JSString(EmptyString) ELSE JSNumber(Val(value))

\* str.replace(/"/g, '""')
RECURSIVE replaceQuotes(_)
replaceQuotes(str) ==
  IF str = << >> THEN << >>
  ELSE IF Head(str) = CharQuote THEN <<CharQuote, CharQuote>> \o replaceQuotes(Tail(str))
  ELSE <<Head(str)>> \o replaceQuotes(Tail(str))

\* `"${str.replace(/"/g, '""')}"`
Quoted(str) == <<CharQuote>> \o replaceQuotes(str) \o <<CharQuote>>

\* category || 'N/A' : null, undefined and '' are falsy
OrNA(category) ==
  IF category = Null \/ Val(category) = EmptyString THEN StrNA ELSE Val(category)

\* the label change of the category, in the export and in the table
exportedCategory(crypto) ==
  IF crypto.category = Some(StrSmartContractPlatform) THEN StrMajorLabel
  ELSE OrNA(crypto.category)

headers(v) ==
  IF v = "App"
  THEN <<JSString(HeaderRank), JSString(HeaderCoinName), JSString(HeaderSymbol),
         JSString(HeaderCategory), JSString(HeaderPrice), JSString(HeaderMarketCap),
         JSString(HeaderVolume), JSString(Header24h), JSString(Header7d),
         JSString(Header30d), JSString(Header1y)>>
  ELSE <<JSString(HeaderRank), JSString(HeaderCoinName), JSString(HeaderSymbol),
         JSString(HeaderPrice), JSString(HeaderMarketCap), JSString(HeaderVolume),
         JSString(HeaderShort), JSString(HeaderMedium), JSString(HeaderLong)>>

\* the array one row is joined from. The name and the symbol of the record
\* are strings: exportToCSV throws on a record without them.
csvRowArray(v, crypto) ==
  IF v = "App"
  THEN <<Element(crypto.market_cap_rank),
         JSString(Quoted(crypto.name)),
         JSString(toUpperCase(crypto.symbol)),
         JSString(Quoted(exportedCategory(crypto))),
         getNumericValue(crypto.current_price),
         getNumericValue(crypto.market_cap),
         getNumericValue(crypto.total_volume),
         getNumericValue(crypto.price_change_percentage_24h_in_currency),
         getNumericValue(crypto.price_change_percentage_7d_in_currency),
         getNumericValue(crypto.price_change_percentage_30d_in_currency),
         getNumericValue(crypto.price_change_percentage_1y_in_currency)>>
  ELSE <<Element(crypto.market_cap_rank),
         JSString(Quoted(crypto.name)),
         JSString(toUpperCase(crypto.symbol)),
         getNumericValue(crypto.current_price),
         getNumericValue(crypto.market_cap),
         getNumericValue(crypto.total_volume),
         getNumericValue(crypto.price_change_percentage_24h_in_currency),
         getNumericValue(crypto.price_change_percentage_7d_in_currency),
         getNumericValue(crypto.price_change_percentage_30d_in_currency)>>

csvRows(v, sorted) ==
  [i \in 1..Len(sorted) |-> JSString(join(csvRowArray(v, sorted[i]), <<CharComma>>))]

csvContent(v, sorted) ==
  join(<<JSString(join(headers(v), <<CharComma>>))>> \o csvRows(v, sorted), <<CharNewline>>)

exportResultAlways(v, sorted) == [csvContent |-> Some(csvContent(v, sorted)), log |-> Null]

\* what one call of exportToCSV puts out: the text handed to the download
\* link, or the line written to the console
exportResult(v, sorted) ==
  IF Len(sorted) = 0 THEN [csvContent |-> Null, log |-> Some(StrNoDataToExport)]
  ELSE [csvContent |-> Some(csvContent(v, sorted)), log |-> Null]

\* one call of exportToCSV; the name of the file (the date) is left out
exportToCSV ==
  /\ mounted
  /\ exported' = exportResult(variant, sortedCryptos)
  /\ lastAction' = Act("exportToCSV", 0)
  /\ UNCHANGED <<variant, mounted, cryptos, loading, error, currency, lastUpdated,
                 sortColumn, sortOrder, sortedCryptos, fetches, started, shownFetch>>

\* a click on Export CSV, which is disabled={loading || cryptos.length === 0}
ExportButton ==
  /\ ~loading
  /\ Len(cryptos) # 0
  /\ exportToCSV

----------------------------------------------------------------------------
(* The table *)

\* {crypto.market_cap_rank}: React renders null and undefined as nothing
rankCell(crypto) ==
  IF crypto.market_cap_rank = Null THEN EmptyString
  ELSE NumberToString(Val(crypto.market_cap_rank))

currencySign(cur) == IF cur = "usd" THEN <<CharDollar>> ELSE <<CharEuro>>

\* Intl.NumberFormat('en-US', currency, compact) on a whole number below 1000
formatNumber(num, cur) ==
  IF num = Null THEN StrNA
  ELSE IF Val(num) < 0 THEN <<CharMinus>> \o currencySign(cur) \o Digits(0 - Val(num))
  ELSE currencySign(cur) \o Digits(Val(num))

\* percentage.toFixed(2) followed by %, on a whole number
formatPercentage(percentage) ==
  IF percentage = Null THEN StrNA
  ELSE NumberToString(Val(percentage)) \o <<CharDot, CharDigit0, CharDigit0, CharPercent>>

\* the cells of one row; part_000 has no category and no 1y cell
tableRow(v, crypto, cur) ==
  [rank |-> rankCell(crypto),
   category |-> IF v = "App" THEN Some(exportedCategory(crypto)) ELSE Null,
   price |-> formatNumber(crypto.current_price, cur),
   marketCap |-> formatNumber(crypto.market_cap, cur),
   volume |-> formatNumber(crypto.total_volume, cur),
   change24h |-> formatPercentage(crypto.price_change_percentage_24h_in_currency),
   change7d |-> formatPercentage(crypto.price_change_percentage_7d_in_currency),
   change30d |-> formatPercentage(crypto.price_change_percentage_30d_in_currency),
   change1y |-> IF v = "App"
                THEN Some(formatPercentage(crypto.price_change_percentage_1y_in_currency))
                ELSE Null]

\* the table is rendered when !loading && !error
tableShown == ~loading /\ error = Null

\* the records on the page: the one table of App.js, the majors table
\* followed by the altcoins table of part_000
tableRecords ==
  IF ~tableShown THEN << >>
  ELSE IF variant = "App" THEN sortedCryptos
  ELSE majors \o altcoins

table == [i \in 1..Len(tableRecords) |-> tableRow(variant, tableRecords[i], currency)]

----------------------------------------------------------------------------
(* The component *)

Init ==
  /\ variant \in Variants
  /\ mounted = FALSE
  /\ cryptos = << >>
  /\ loading = TRUE
  /\ error = Null
  /\ currency = "usd"
  /\ lastUpdated = Null
  /\ sortColumn = Null
  /\ sortOrder = "desc"
  /\ sortedCryptos = << >>
  /\ fetches = {}
  /\ started = 0
  /\ lastAction = Act("init", 0)
  /\ shownFetch = Null
  /\ exported = NoExport

Next ==
  \/ Mount
  \/ \E c \in Currencies : setCurrency(c)
  \/ Refresh
  \/ \E column \in {ColCategory, Col24h, Col7d} : handleSort(column)
  \/ \E f \in fetches, outcome \in ResponseOutcomes : Response1(f, outcome)
  \/ \E f \in fetches, outcome \in ResponseOutcomes : Response2(f, outcome)
  \/ \E f \in fetches, thrown \in BOOLEAN, data \in Pages : Json1(f, thrown, data)
  \/ \E f \in fetches, thrown \in BOOLEAN, data \in Pages : Json2(f, thrown, data)
  \/ \E f \in fetches, outcome \in ResponseOutcomes : MarketResponse(f, outcome)
  \/ \E f \in fetches, thrown \in BOOLEAN, data \in MarketPages : MarketJson(f, thrown, data)
  \/ \E f \in fetches, i \in 1..MaxMarket, outcome \in ResponseOutcomes :
       DetailResponse(f, i, outcome)
  \/ \E f \in fetches, i \in 1..MaxMarket, thrown \in BOOLEAN, categories \in CategoryLists :
       DetailJson(f, i, thrown, categories)
  \/ \E f \in fetches : PromiseAll(f)
  \/ ExportButton

Spec == Init /\ [][Next]_vars

----------------------------------------------------------------------------
(* The sorter on its own: a batch has been stored by one fetch, and the    *)
(* column headers are clicked.                                             *)

\* the values of a percentage change: absent, negative, zero, positive
SortValues == {Null, Some(0 - 1), Some(0), Some(1)}

\* the categories of the App variant: absent, '', 'a', 'B'
SortCategories(v) ==
  IF v = "App" THEN {Null, Some(EmptyString), Some(StrLowerA), Some(StrUpperB)}
  ELSE {Null}

\* the i-th record of a batch: its id is its place in the batch
SortRecord(i, v, c) == Crypto(Some(i), Some(i), StrLowerA, StrLowerA, c, v, v)

\* the batch of n records with the values vs and the categories cs
SortBatch(n, vs, cs) == [i \in 1..n |-> SortRecord(i, vs[i], cs[i])]

InitSort ==
  /\ variant \in Variants
  /\ mounted = TRUE
  /\ \E n \in 0..MaxLen :
       \E vs \in [1..n -> SortValues], cs \in [1..n -> SortCategories(variant)] :
         cryptos = SortBatch(n, vs, cs)
  /\ loading = FALSE
  /\ error = Null
  /\ currency = "usd"
  /\ lastUpdated = Some(1)
  /\ sortColumn = Null
  /\ sortOrder = "desc"
  /\ sortedCryptos = Render(cryptos, sortColumn, sortOrder).sortedCryptos
  /\ fetches = {}
  /\ started = 1
  /\ lastAction = Act("fetchSucceeded", 0)
  /\ shownFetch = Some([n |-> 1, currency |-> "usd"])
  /\ exported = NoExport

NextSort == \E column \in {ColCategory, Col24h, Col7d} : handleSort(column)

SortSpec == InitSort /\ [][NextSort]_vars

----------------------------------------------------------------------------
(* The two tables of part_000 on their own: a batch whose ranks lie on and  *)
(* around the bounds of the tables has been stored, and the headers are     *)
(* clicked.                                                                 *)

\* absent, below the majors, the bounds of the two tables, above the altcoins
PartitionRanks == {Null, Some(0), Some(1), Some(8), Some(9), Some(200), Some(201)}

PartitionValues == {Null, Some(1)}

PartitionRecord(i, rank, v) == Crypto(Some(i), rank, StrLowerA, StrLowerA, Null, v, v)

InitPartition ==
  /\ variant = "part_000"
  /\ mounted = TRUE
  /\ \E n \in 0..MaxLen :
       \E ranks \in [1..n -> PartitionRanks], vs \in [1..n -> PartitionValues] :
         cryptos = [i \in 1..n |-> PartitionRecord(i, ranks[i], vs[i])]
  /\ loading = FALSE
  /\ error = Null
  /\ currency = "usd"
  /\ lastUpdated = Some(1)
  /\ sortColumn = Null
  /\ sortOrder = "desc"
  /\ sortedCryptos = Render(cryptos, sortColumn, sortOrder).sortedCryptos
  /\ fetches = {}
  /\ started = 1
  /\ lastAction = Act("fetchSucceeded", 0)
  /\ shownFetch = Some([n |-> 1, currency |-> "usd"])
  /\ exported = NoExport

NextPartition == \E column \in Columns(variant) : handleSort(column)

PartitionSpec == InitPartition /\ [][NextPartition]_vars

----------------------------------------------------------------------------
(* The exporter on its own: exportToCSV is called on a batch, empty or not, *)
(* whose names, symbols and categories hold the characters a CSV file gives *)
(* a meaning to; the 24h header is clicked in between.                      *)

\* a plain name, and one with a quote, a comma and a line break
CsvNames == {StrLowerA, <<CharLowerA, CharQuote, CharComma, CharNewline>>}

\* a plain symbol, and one with a comma
CsvSymbols == {StrLowerA, <<CharLowerA, CharComma, CharLowerB>>}

\* the categories of the App variant: absent, '', the relabelled one, and
\* one that ends in a quote
CsvCategories(v) ==
  IF v = "App"
  THEN {Null, Some(EmptyString), Some(StrSmartContractPlatform),
        Some(<<CharLowerA, CharQuote>>)}
  ELSE {Null}

\* absent, zero, a number of two digits
CsvPrices == {Null, Some(0), Some(10)}

\* the i-th record of a batch; the record with the price 0 has no rank
CsvRecord(i, name, symbol, category, price) ==
  Crypto(Some(i), IF price = Some(0) THEN Null ELSE Some(i), name, symbol, category,
         price, price)

InitCsv ==
  /\ variant \in Variants
  /\ mounted = TRUE
  /\ \E n \in 0..MaxRows :
       \E names \in [1..n -> CsvNames], symbols \in [1..n -> CsvSymbols],
          categories \in [1..n -> CsvCategories(variant)], prices \in [1..n -> CsvPrices] :
         cryptos = [i \in 1..n |->
                      CsvRecord(i, names[i], symbols[i], categories[i], prices[i])]
  /\ loading = FALSE
  /\ error = Null
  /\ currency = "usd"
  /\ lastUpdated = Some(1)
  /\ sortColumn = Null
  /\ sortOrder = "desc"
  /\ sortedCryptos = Render(cryptos, sortColumn, sortOrder).sortedCryptos
  /\ fetches = {}
  /\ started = 1
  /\ lastAction = Act("fetchSucceeded", 0)
  /\ shownFetch = Some([n |-> 1, currency |-> "usd"])
  /\ exported = NoExport

NextCsv ==
  \/ exportToCSV
  \/ handleSort(Col24h)

CsvSpec == InitCsv /\ [][NextCsv]_vars

----------------------------------------------------------------------------
(* Properties *)

Flip(ord) == IF ord = "asc" THEN "desc" ELSE "asc"

Count(seq, x) == Cardinality({i \in 1..Len(seq) : seq[i] = x})

IsPermutation(a, b) ==
  /\ Len(a) = Len(b)
  /\ \A i \in 1..Len(a) : Count(a, a[i]) = Count(b, a[i])

PositionOf(seq, id) == CHOOSE p \in 1..Len(seq) : seq[p].id = id

\* the value a record is sorted by: an absent number counts as zero, an absent
\* category as the empty string
KeyOf(r) ==
  IF sortColumn = Null THEN 0
  ELSE IF sortColumn = Some(ColCategory)
  THEN (IF r.category = Null THEN EmptyString ELSE Val(r.category))
  ELSE (IF r[Val(sortColumn)] = Null THEN 0 ELSE Val(r[Val(sortColumn)]))

NumericColumn == sortColumn # Null /\ sortColumn # Some(ColCategory)

\* C1: a click on the current sort column flips the direction and keeps the
\* column; a click on any other column (the first click included) makes it the
\* sort column with direction descending, whatever the direction was.
C1_HandleSortDirection ==
  [][lastAction'.op = "handleSort" =>
       IF sortColumn = lastAction'.column
       THEN sortColumn' = sortColumn /\ sortOrder' = Flip(sortOrder)
       ELSE sortColumn' = lastAction'.column /\ sortOrder' = "desc"]_vars

C1_Witness ==
  /\ lastAction.op = "handleSort"
  /\ lastAction.prevColumn # Null
  /\ lastAction.prevColumn # lastAction.column
  /\ lastAction.prevOrder = "asc"
  /\ sortColumn = lastAction.column
  /\ sortOrder = "desc"

\* C2: computing sortedCryptos leaves the stored batch as it was, records and
\* order, and the sorted sequence holds the batch's records, each as often as
\* the batch does.
C2_SortLeavesBatch ==
  [][cryptos' = cryptos /\ IsPermutation(sortedCryptos', cryptos)]_vars

C2_Witness ==
  /\ lastAction.op = "handleSort"
  /\ Len(cryptos) = MaxLen
  /\ sortedCryptos # cryptos

\* C3: two records with equal sort-key values (absent counting as zero, or as
\* the empty category) keep their order of the batch in the sorted sequence,
\* for every column and both directions; with no sort column the sorted
\* sequence is the batch.
C3_Stable ==
  /\ \A i, j \in 1..Len(cryptos) :
       (i < j /\ KeyOf(cryptos[i]) = KeyOf(cryptos[j])) =>
         PositionOf(sortedCryptos, cryptos[i].id) < PositionOf(sortedCryptos, cryptos[j].id)
  /\ sortColumn = Null => sortedCryptos = cryptos

\* the batch [a (1), b (absent), c (0)] sorted ascending is [b, c, a]
C3_Witness ==
  /\ sortColumn = Some(Col24h) /\ sortOrder = "asc"
  /\ Len(cryptos) = 3
  /\ [i \in 1..3 |-> cryptos[i][Col24h]] = <<Some(1), Null, Some(0)>>
  /\ [i \in 1..3 |-> sortedCryptos[i].id] = <<Some(2), Some(3), Some(1)>>

\* C4: on a numeric column a record whose value is absent stands after every
\* record with a negative value and before every record with a positive value
\* when ascending, and the other way round when descending.
C4_AbsentAsZero ==
  NumericColumn =>
    \A p, q \in 1..Len(sortedCryptos) :
      LET vp == sortedCryptos[p][Val(sortColumn)]
          vq == sortedCryptos[q][Val(sortColumn)]
      IN (vp = Null /\ vq # Null) =>
           /\ (Val(vq) < 0 /\ sortOrder = "asc") => q < p
           /\ (Val(vq) > 0 /\ sortOrder = "asc") => p < q
           /\ (Val(vq) < 0 /\ sortOrder = "desc") => p < q
           /\ (Val(vq) > 0 /\ sortOrder = "desc") => q < p

C4_Witness ==
  /\ sortColumn = Some(Col24h) /\ sortOrder = "asc"
  /\ Len(cryptos) = 3
  /\ [i \in 1..3 |-> cryptos[i][Col24h]] = <<Null, Some(1), Some(0 - 1)>>
  /\ [i \in 1..3 |-> sortedCryptos[i][Col24h]] = <<Some(0 - 1), Null, Some(1)>>

\* C5: sorting the sorted sequence again by the same column and direction
\* gives the same sequence.
C5_Idempotent ==
  Render(sortedCryptos, sortColumn, sortOrder).sortedCryptos = sortedCryptos

C5_Witness ==
  /\ sortColumn # Null
  /\ sortedCryptos # cryptos
  /\ \E i, j \in 1..Len(cryptos) : i < j /\ KeyOf(cryptos[i]) = KeyOf(cryptos[j])

\* C6: sorted by category, the records stand in the order localeCompare gives
\* their category strings, ascending or descending as the direction says, an
\* absent category counting as the empty string: before every non-empty
\* category when ascending and after them when descending.
C6_CategoryOrder ==
  sortColumn = Some(ColCategory) =>
    /\ \A p, q \in 1..Len(sortedCryptos) :
         p < q =>
           IF sortOrder = "asc"
           THEN localeCompare(KeyOf(sortedCryptos[p]), KeyOf(sortedCryptos[q])) <= 0
           ELSE localeCompare(KeyOf(sortedCryptos[p]), KeyOf(sortedCryptos[q])) >= 0
    /\ \A p, q \in 1..Len(sortedCryptos) :
         (/\ sortedCryptos[p].category = Null
          /\ sortedCryptos[q].category \notin {Null, Some(EmptyString)}) =>
           IF sortOrder = "asc" THEN p < q ELSE q < p

C6_Witness ==
  /\ sortColumn = Some(ColCategory) /\ sortOrder = "desc"
  /\ Len(cryptos) = 3
  /\ [i \in 1..3 |-> cryptos[i].category] = <<Null, Some(StrLowerA), Some(StrUpperB)>>
  /\ [i \in 1..3 |-> sortedCryptos[i].category] = <<Some(StrUpperB), Some(StrLowerA), Null>>

\* the fetch that ends in this step
Ending(f) == f \in fetches /\ f \notin fetches'

LookupsDone(f) == \A i \in 1..Len(f.details) : f.details[i].stage \in {"failed", "settled"}

C8_AtomicReplace ==
  [][cryptos' # cryptos =>
       /\ lastAction'.op = "fetchSucceeded"
       /\ \E f \in fetches :
            /\ Ending(f)
            /\ IF variant = "part_000"
               THEN /\ f.stage = "json2"
                    /\ \E data \in Pages : cryptos' = f.data1 \o data
               ELSE /\ f.stage = "details"
                    /\ LookupsDone(f)
                    /\ Len(cryptos') = Len(f.marketData)
                    /\ \A i \in 1..Len(f.marketData) :
                         cryptos'[i] =
                           [f.marketData[i] EXCEPT !.category = f.details[i].category]
    ]_vars

\* a batch is on display while another fetch holds a part of its result
C8_Witness ==
  /\ lastAction.op = "fetchSucceeded"
  /\ cryptos # << >>
  /\ \E f \in fetches :
       \/ f.stage = "json2" /\ f.data1 # << >> /\ f.data1 # cryptos
       \/ /\ f.stage = "details" /\ Len(f.details) = 2
          /\ f.details[1].stage = "settled" /\ f.details[2].stage = "detailResponse"

\* C9: the step in which a fetch fails sets the error message and loading to
\* false and leaves the batch and lastUpdated as they were; the step that
\* starts a fetch clears the error.
C9_FailureKeepsBatch ==
  [][/\ lastAction'.op = "fetchFailed" =>
          /\ error' = Some(ErrorMessage(variant))
          /\ loading' = FALSE
          /\ cryptos' = cryptos
          /\ lastUpdated' = lastUpdated
     /\ lastAction'.op \in {"mount", "setCurrency", "refresh"} =>
          /\ error' = Null
          /\ loading' = TRUE
          /\ cryptos' = cryptos
    ]_vars

\* a fetch has failed with a batch on display, and a fetch started after a
\* failure
C9_Witness ==
  /\ lastAction.op = "fetchFailed"
  /\ cryptos # << >>
  /\ lastUpdated # Null
  /\ error # Null
  /\ ~loading

\* C10 as claimed: after a successful fetch every stored record has an id.
C10_EveryRecordHasId ==
  lastAction.op = "fetchSucceeded" => \A i \in 1..Len(cryptos) : cryptos[i].id # Null

\* C11: every record of the sorted batch whose rank lies in 1..8 is in the
\* majors table once and not in the altcoins table, every record whose rank
\* lies in 9..200 is in the altcoins table once and not in the majors table,
\* and a record with no rank or a rank outside 1..200 is in neither.
C11_Partition ==
  \A i \in 1..Len(sortedCryptos) :
    LET c == sortedCryptos[i]
        r == c.market_cap_rank
        inMajors == Count(majors, c)
        inAltcoins == Count(altcoins, c)
    IN  /\ r # Null /\ Val(r) \in 1..8 => inMajors = 1 /\ inAltcoins = 0
        /\ r # Null /\ Val(r) \in 9..200 => inMajors = 0 /\ inAltcoins = 1
        /\ r = Null \/ Val(r) \notin 1..200 => inMajors = 0 /\ inAltcoins = 0

\* a sorted batch with a record on the upper bound of the majors, one on the
\* lower bound of the altcoins and one without a rank
C11_Witness ==
  /\ sortColumn # Null
  /\ Len(sortedCryptos) = 3
  /\ \E i, j, k \in 1..3 :
       /\ sortedCryptos[i].market_cap_rank = Some(8)
       /\ sortedCryptos[j].market_cap_rank = Some(9)
       /\ sortedCryptos[k].market_cap_rank = Null
  /\ Len(majors) = 1
  /\ Len(altcoins) = 1

----------------------------------------------------------------------------
(* The exported file *)

\* the text handed to the download link by the step just taken
ExportedText == Val(exported.csvContent)

Exported == lastAction.op = "exportToCSV" /\ exported.csvContent # Null

\* the text of a number column: nothing when absent, the number otherwise
NumberText(field) == IF field = Null THEN EmptyString ELSE NumberToString(Val(field))

\* a field in quotes, each quote inside it being one of a pair
RECURSIVE QuotesPaired(_)
QuotesPaired(str) ==
  IF str = << >> THEN TRUE
  ELSE IF Head(str) # CharQuote THEN QuotesPaired(Tail(str))
  ELSE Len(str) >= 2 /\ str[2] = CharQuote /\ QuotesPaired(Tail(Tail(str)))

IsQuoted(str) ==
  /\ Len(str) >= 2
  /\ str[1] = CharQuote
  /\ str[Len(str)] = CharQuote
  /\ QuotesPaired(SubSeq(str, 2, Len(str) - 1))

\* a reader of RFC 4180 files: fields are set apart by commas and rows by
\* line breaks; a field that begins with a quote runs to its closing quote,
\* a pair of quotes inside it standing for one
IsSeparator(text, i) == i > Len(text) \/ text[i] \in {CharComma, CharNewline}

\* the rest of a field from place i on, after its quoted part if it has one
RECURSIVE ReadPlain(_, _, _)
ReadPlain(text, i, field) ==
  IF IsSeparator(text, i) THEN [field |-> field, next |-> i]
  ELSE ReadPlain(text, i + 1, Append(field, text[i]))

\* the quoted part of a field, from the place after its opening quote on
RECURSIVE ReadQuoted(_, _, _)
ReadQuoted(text, i, field) ==
  IF i > Len(text) THEN [field |-> field, next |-> i]
  ELSE IF text[i] # CharQuote THEN ReadQuoted(text, i + 1, Append(field, text[i]))
  ELSE IF i < Len(text) /\ text[i + 1] = CharQuote
       THEN ReadQuoted(text, i + 2, Append(field, CharQuote))
  ELSE ReadPlain(text, i + 1, field)

ReadField(text, i) ==
  IF i <= Len(text) /\ text[i] = CharQuote THEN ReadQuoted(text, i + 1, << >>)
  ELSE ReadPlain(text, i, << >>)

RECURSIVE ReadRow(_, _, _)
ReadRow(text, i, row) ==
  LET read == ReadField(text, i)
  IN IF read.next <= Len(text) /\ text[read.next] = CharComma
     THEN ReadRow(text, read.next + 1, Append(row, read.field))
     ELSE [row |-> Append(row, read.field), next |-> read.next]

RECURSIVE ReadRows(_, _, _)
ReadRows(text, i, rows) ==
  LET read == ReadRow(text, i, << >>)
  IN IF read.next <= Len(text) THEN ReadRows(text, read.next + 1, Append(rows, read.row))
     ELSE Append(rows, read.row)

ParseCsv(text) == ReadRows(text, 1, << >>)

\* the places of the string columns in a row: name, symbol and, in the App
\* variant, category
StringColumns(v) == IF v = "App" THEN {2, 3, 4} ELSE {2, 3}

\* C12: in the exported file the coin name, the symbol and the category of
\* every data row stand in double quotes, the quotes inside them doubled.
C12_StringFieldsQuoted ==
  Exported =>
    \A i \in 1..Len(sortedCryptos), k \in StringColumns(variant) :
      IsQuoted(ElementText(csvRowArray(variant, sortedCryptos[i])[k]))

\* strings set one after the other with a separator in between
RECURSIVE Concat(_, _)
Concat(strings, separator) ==
  IF strings = << >> THEN EmptyString
  ELSE IF Len(strings) = 1 THEN strings[1]
  ELSE strings[1] \o separator \o Concat(Tail(strings), separator)

HeaderTexts == [k \in 1..Len(headers(variant)) |-> headers(variant)[k].str]

\* the fields of a data row, the number columns as the claim words them and
\* the string columns as the exporter wrote them
DataFields(crypto) ==
  LET written == csvRowArray(variant, crypto)
      strings == [k \in StringColumns(variant) |-> ElementText(written[k])]
      amounts == <<NumberText(crypto.current_price), NumberText(crypto.market_cap),
                   NumberText(crypto.total_volume)>>
      changes == <<NumberText(crypto.price_change_percentage_24h_in_currency),
                   NumberText(crypto.price_change_percentage_7d_in_currency),
                   NumberText(crypto.price_change_percentage_30d_in_currency)>>
  IN IF variant = "App"
     THEN <<NumberText(crypto.market_cap_rank), strings[2], strings[3], strings[4]>>
          \o amounts \o changes
          \o <<NumberText(crypto.price_change_percentage_1y_in_currency)>>
     ELSE <<NumberText(crypto.market_cap_rank), strings[2], strings[3]>>
          \o amounts \o changes

\* C13: the exported file is the header line, the headers set apart by
\* commas, followed by one line for each record in the sorted order; on it
\* every number column (rank, price, market cap, volume, each percentage
\* change) is empty when the value is absent and the number itself, 0
\* included, when it is not.
C13_NumericColumns ==
  Exported =>
    ExportedText =
      Concat(<<Concat(HeaderTexts, <<CharComma>>)>>
             \o [i \in 1..Len(sortedCryptos) |->
                   Concat(DataFields(sortedCryptos[i]), <<CharComma>>)],
             <<CharNewline>>)

\* a batch of two records, shown in the other order, one without a price
\* and without percentage changes, has been exported
C13_Witness ==
  /\ Exported
  /\ sortColumn # Null
  /\ Len(sortedCryptos) = 2
  /\ sortedCryptos # cryptos
  /\ \E i \in 1..2 : sortedCryptos[i].current_price = Null
  /\ \E i \in 1..2 : sortedCryptos[i].market_cap_rank # Null

\* the fields of a record as they went in
InputFields(crypto) ==
  LET category == IF crypto.category = Null THEN EmptyString ELSE Val(crypto.category)
      amounts == <<NumberText(crypto.current_price), NumberText(crypto.market_cap),
                   NumberText(crypto.total_volume)>>
      changes == <<NumberText(crypto.price_change_percentage_24h_in_currency),
                   NumberText(crypto.price_change_percentage_7d_in_currency),
                   NumberText(crypto.price_change_percentage_30d_in_currency)>>
  IN IF variant = "App"
     THEN <<NumberText(crypto.market_cap_rank), crypto.name, crypto.symbol, category>>
          \o amounts \o changes
          \o <<NumberText(crypto.price_change_percentage_1y_in_currency)>>
     ELSE <<NumberText(crypto.market_cap_rank), crypto.name, crypto.symbol>>
          \o amounts \o changes

\* C14: read back with an RFC 4180 reader, the exported file has the header
\* row and one row for each record, every row with as many fields as the
\* header, and every field of a data row is the field of the record.
C14_RoundTrip ==
  Exported =>
    LET rows == ParseCsv(ExportedText)
    IN /\ Len(rows) = 1 + Len(sortedCryptos)
       /\ rows[1] = HeaderTexts
       /\ \A r \in 1..Len(rows) : Len(rows[r]) = Len(HeaderTexts)
       /\ \A i \in 1..Len(sortedCryptos) : rows[i + 1] = InputFields(sortedCryptos[i])

\* C15: a call of exportToCSV on a batch of no records builds no file and
\* starts no download, writes 'No data to export.' to the console, and
\* leaves the state, the error with it, as it was.
C15_EmptyExportNoOp ==
  [][(lastAction'.op = "exportToCSV" /\ Len(cryptos) = 0) =>
       /\ exported'.csvContent = Null
       /\ exported'.log = Some(StrNoDataToExport)
       /\ error' = error
       /\ UNCHANGED <<cryptos, sortedCryptos, loading, currency, lastUpdated,
                      sortColumn, sortOrder, fetches, started>>]_vars

\* exportToCSV has been called on the empty batch
C15_Witness ==
  /\ lastAction.op = "exportToCSV"
  /\ Len(cryptos) = 0
  /\ exported.log = Some(StrNoDataToExport)

----------------------------------------------------------------------------
(* The table on the page *)

\* a cell reads N/A exactly when the field behind it is absent
ShowsAbsence(field, cell) == (field = Null) <=> (cell = StrNA)

AbsentShownAsNA ==
  \A i \in 1..Len(table) :
    LET crypto == tableRecords[i]
        row == table[i]
    IN /\ ShowsAbsence(crypto.market_cap_rank, row.rank)
       /\ ShowsAbsence(crypto.current_price, row.price)
       /\ ShowsAbsence(crypto.market_cap, row.marketCap)
       /\ ShowsAbsence(crypto.total_volume, row.volume)
       /\ ShowsAbsence(crypto.price_change_percentage_24h_in_currency, row.change24h)
       /\ ShowsAbsence(crypto.price_change_percentage_7d_in_currency, row.change7d)
       /\ ShowsAbsence(crypto.price_change_percentage_30d_in_currency, row.change30d)
       /\ variant = "App" =>
            /\ ShowsAbsence(crypto.price_change_percentage_1y_in_currency, Val(row.change1y))
            /\ crypto.category = Null => Val(row.category) = StrNA

\* C16: every cell of the table (rank, price, market cap, volume, each
\* percentage change, category) reads N/A when the field of the record is
\* absent and a formatted value otherwise, and a click on a header leaves
\* the stored records, their absent fields with them, as they were.
C16_AbsentShownAsNA ==
  [][AbsentShownAsNA' /\ (lastAction'.op = "handleSort" => cryptos' = cryptos)]_vars

----------------------------------------------------------------------------
(* Fetches that overlap *)

\* C17: when no fetch is in flight any more and none has left an error, the
\* stored batch is the one of the fetch started last, which is the fetch for
\* the selected currency: an earlier fetch that answers late does not write
\* over it.
C17_LatestFetchWins ==
  (fetches = {} /\ error = Null /\ shownFetch # Null) =>
    /\ Val(shownFetch).n = started
    /\ Val(shownFetch).currency = currency

\* C18: loading is true as long as a fetch is in flight, so that the table
\* is hidden and Refresh and Export are disabled for that long.
C18_LoadingWhileInFlight ==
  fetches # {} => loading /\ ~tableShown

\* the call of fetchCryptoData that returns in this step
Returns(f) == f \in fetches /\ \A g \in fetches' : g.n # f.n

\* C19: the step that ends a fetch sets loading to false and either stores
\* the batch of that fetch and the time, with error null, or sets error and
\* leaves the batch and the time as they were.
C19_FetchOutcome ==
  [][\A f \in fetches :
       Returns(f) =>
         /\ loading' = FALSE
         /\ \/ /\ lastAction'.op = "fetchSucceeded"
               /\ shownFetch' = Some([n |-> f.n, currency |-> f.currency])
               /\ lastUpdated' # Null
               /\ error' = Null
            \/ /\ lastAction'.op = "fetchFailed"
               /\ error' # Null
               /\ cryptos' = cryptos
               /\ lastUpdated' = lastUpdated]_vars

\* C20: a click on a header changes the sort column and direction and leaves
\* the batch, the currency, loading and error as they were; every other step,
\* the end of a fetch among them, leaves the sort column and direction as
\* they were; the direction is 'asc' or 'desc', and a sort column once set
\* stays set.
C20_SortFrame ==
  [][/\ lastAction'.op = "handleSort" =>
          /\ cryptos' = cryptos
          /\ currency' = currency
          /\ loading' = loading
          /\ error' = error
     /\ lastAction'.op # "handleSort" =>
          /\ sortColumn' = sortColumn
          /\ sortOrder' = sortOrder
     /\ sortOrder' \in {"asc", "desc"}
     /\ sortColumn # Null => sortColumn' # Null]_vars

\* a second fetch has stored its batch under a sort set to ascending by two
\* clicks on one header
C20_Witness ==
  /\ lastAction.op = "fetchSucceeded"
  /\ started = 2
  /\ sortColumn # Null
  /\ sortOrder = "asc"
  /\ Len(cryptos) > 0
  /\ sortedCryptos # cryptos

====
